---- MODULE Spec2Model ----
(***************************************************************************)
(* Model of bot-api-mcp (src/src/index.ts): the eight Bank of Thailand     *)
(* rate tools, their zod input schemas, and makeApiRequest, the gateway    *)
(* that performs one authenticated HTTP GET under an abort deadline.       *)
(*                                                                         *)
(* JavaScript strings that the code inspects character by character (the   *)
(* period and currency parameters) are sequences of one-character strings. *)
(* An optional value (an absent argument, an unset environment variable)   *)
(* is a record [set, val]; set = FALSE is JavaScript's undefined.          *)
(***************************************************************************)
EXTENDS Integers, Sequences, FiniteSets, TLC

(***************************************************************************)
(* Bounds of the model                                                     *)
(***************************************************************************)
\* number of invocations that may be in flight together
NumInv == 2
\* largest amount of time, in ms, that passes in one step
TickMs == 15000

Invs == 1 .. NumInv

(***************************************************************************)
(* Constants of the program                                                *)
(***************************************************************************)
REFERENCE_RATE_BASE_URL == "https://gateway.api.bot.or.th/Stat-ReferenceRate/v2"
EXCHANGE_RATE_BASE_URL == "https://gateway.api.bot.or.th/Stat-ExchangeRate/v2"

SUPPORTED_CURRENCIES ==
  { <<"U","S","D">>, <<"G","B","P">>, <<"E","U","R">>, <<"J","P","Y">>,
    <<"C","N","Y">>, <<"H","K","D">>, <<"S","G","D">>, <<"M","Y","R">>,
    <<"T","W","D">>, <<"K","R","W">>, <<"I","D","R">>, <<"I","N","R">>,
    <<"A","U","D">>, <<"N","Z","D">>, <<"C","H","F">>, <<"D","K","K">>,
    <<"N","O","K">>, <<"S","E","K">>, <<"A","E","D">>, <<"P","K","R">> }

REQUEST_TIMEOUT_MS == 30000

InterbankTools ==
  { "get_daily_interbank_rate", "get_monthly_interbank_rate",
    "get_quarterly_interbank_rate", "get_annual_interbank_rate" }

ExchangeTools ==
  { "get_daily_exchange_rate", "get_monthly_exchange_rate",
    "get_quarterly_exchange_rate", "get_annual_exchange_rate" }

Tools == InterbankTools \cup ExchangeTools

(***************************************************************************)
(* Optional values                                                         *)
(***************************************************************************)
Undefined == [set |-> FALSE, val |-> <<>>]
Some(v) == [set |-> TRUE, val |-> v]
OptOf(S) == { Some(v) : v \in S } \cup { Undefined }

\* JavaScript truthiness of an optional string: undefined and "" are falsy
TruthyStrictUndefined(v) == v.set
Truthy(v) == v.set /\ v.val # <<>>

(***************************************************************************)
(* Regular expressions of the schemas.  A pattern is a sequence of atoms:  *)
(* "d" is \d, "q" is [1-4], any other atom is that literal character.  The *)
(* patterns are anchored by ^ and $, and JavaScript's $ (no m flag)        *)
(* matches only at the very end of the input.                              *)
(***************************************************************************)
Digits == {"0","1","2","3","4","5","6","7","8","9"}

AtomMatches(atom, ch) ==
  CASE atom = "d" -> ch \in Digits
    [] atom = "q" -> ch \in {"1","2","3","4"}
    [] OTHER -> ch = atom

\* the same pattern without the anchors: a match anywhere in the input
RegexTestUnanchored(pat, s) ==
  \E off \in 0 .. (Len(s) - Len(pat)) :
    \A k \in 1 .. Len(pat) : AtomMatches(pat[k], s[off + k])
RegexTest(pat, s) ==
  /\ Len(s) = Len(pat)
  /\ \A k \in 1 .. Len(pat) : AtomMatches(pat[k], s[k])

dailyPattern == <<"d","d","d","d","-","d","d","-","d","d">>
monthlyPattern == <<"d","d","d","d","-","d","d">>
quarterlyPattern == <<"d","d","d","d","-","Q","q">>
annualPattern == <<"d","d","d","d">>

\* z.string().regex(...): a required string that matches the pattern
dailyPeriodSchema(v) == v.set /\ RegexTest(dailyPattern, v.val)
monthlyPeriodSchema(v) == v.set /\ RegexTest(monthlyPattern, v.val)
quarterlyPeriodSchema(v) == v.set /\ RegexTest(quarterlyPattern, v.val)
annualPeriodSchema(v) == v.set /\ RegexTest(annualPattern, v.val)

\* z.enum(SUPPORTED_CURRENCIES).optional()
currencySchema(v) == (~ v.set) \/ v.val \in SUPPORTED_CURRENCIES

(***************************************************************************)
(* The tool table: schema, base URL and endpoint of each registration      *)
(***************************************************************************)
PeriodSchemaOf(t, v) ==
  CASE t \in {"get_daily_interbank_rate", "get_daily_exchange_rate"} ->
         dailyPeriodSchema(v)
    [] t \in {"get_monthly_interbank_rate", "get_monthly_exchange_rate"} ->
         monthlyPeriodSchema(v)
    [] t \in {"get_quarterly_interbank_rate", "get_quarterly_exchange_rate"} ->
         quarterlyPeriodSchema(v)
    [] OTHER -> annualPeriodSchema(v)

\* the input schema of a registration, applied to the raw arguments
SchemaAccepts(t, a) ==
  /\ PeriodSchemaOf(t, a.start_period)
  /\ PeriodSchemaOf(t, a.end_period)
  /\ (t \in ExchangeTools => currencySchema(a.currency))

BaseUrlOf(t) ==
  IF t \in InterbankTools THEN REFERENCE_RATE_BASE_URL
                          ELSE EXCHANGE_RATE_BASE_URL

EndpointOfSwapped(t) ==
  CASE t = "get_daily_interbank_rate" -> "/DAILY_REF_RATE/"
    [] t = "get_monthly_interbank_rate" -> "/MONTHLY_REF_RATE/"
    [] t = "get_quarterly_interbank_rate" -> "/QUARTERLY_REF_RATE/"
    [] t = "get_annual_interbank_rate" -> "/ANNUAL_REF_RATE/"
    [] t = "get_daily_exchange_rate" -> "/DAILY_AVG_EXG_RATE/"
    [] t = "get_monthly_exchange_rate" -> "/MONTHLY_AVG_EXG_RATE/"
    [] t = "get_quarterly_exchange_rate" -> "/MONTHLY_AVG_EXG_RATE/"
    [] OTHER -> "/ANNUAL_AVG_EXG_RATE/"
EndpointOf(t) ==
  CASE t = "get_daily_interbank_rate" -> "/DAILY_REF_RATE/"
    [] t = "get_monthly_interbank_rate" -> "/MONTHLY_REF_RATE/"
    [] t = "get_quarterly_interbank_rate" -> "/QUARTERLY_REF_RATE/"
    [] t = "get_annual_interbank_rate" -> "/ANNUAL_REF_RATE/"
    [] t = "get_daily_exchange_rate" -> "/DAILY_AVG_EXG_RATE/"
    [] t = "get_monthly_exchange_rate" -> "/MONTHLY_AVG_EXG_RATE/"
    [] t = "get_quarterly_exchange_rate" -> "/QUARTERLY_AVG_EXG_RATE/"
    [] OTHER -> "/ANNUAL_AVG_EXG_RATE/"

\* currency || ""
OrEmpty(v) == IF Truthy(v) THEN v.val ELSE <<>>

\* the params object a handler passes to makeApiRequest, in insertion order
HandlerParams(t, a) ==
  IF t \in InterbankTools
    THEN << [key |-> "start_period", value |-> a.start_period.val],
            [key |-> "end_period", value |-> a.end_period.val] >>
    ELSE << [key |-> "start_period", value |-> a.start_period.val],
            [key |-> "end_period", value |-> a.end_period.val],
            [key |-> "currency", value |-> OrEmpty(a.currency)] >>

\* Object.entries(params).forEach: append the entries whose value is truthy
AppendAllParams(params) == params
RECURSIVE AppendParams(_)
AppendParams(params) ==
  IF params = <<>> THEN <<>>
  ELSE IF Head(params).value # <<>>
         THEN <<Head(params)>> \o AppendParams(Tail(params))
         ELSE AppendParams(Tail(params))

\* response.ok
ResponseOkUpTo399(status) == status >= 200 /\ status <= 399
ResponseOk(status) == status >= 200 /\ status <= 299

(***************************************************************************)
(* Errors and envelopes                                                    *)
(***************************************************************************)
MissingKeyMessage ==
  "BOT_API_KEY environment variable is not set. Please set it with your Bank of Thailand API key."
TimeoutMessage == "API request timed out"
AbortMessage == "This operation was aborted"
StatusMessage(status) == "API request failed with status " \o ToString(status)

Error(msg) == [name |-> "Error", message |-> msg]
TypeError(msg) == [name |-> "TypeError", message |-> msg]
SyntaxError(msg) == [name |-> "SyntaxError", message |-> msg]
AbortError == [name |-> "AbortError", message |-> AbortMessage]

\* the catch clause of makeApiRequest
GatewayCatch(err) ==
  IF err.name = "AbortError" THEN Error(TimeoutMessage) ELSE err

\* the catch clause of a tool handler
HandlerCatchNoFlag(err) ==
  [content |-> << [type |-> "text", text |-> "Error: " \o err.message] >>]
HandlerCatch(err) ==
  [content |-> << [type |-> "text", text |-> "Error: " \o err.message] >>,
   isError |-> TRUE]

\* upstream response bodies, and response.json() applied to them
BodyRate == "{\"rate\":35}"
BodyEmptyList == "[]"
BodyHtml == "<html>Bad Gateway</html>"
BodyTruncated == "{\"detail\":\"internal host db-7\""
BodyNone == ""
Bodies == {BodyRate, BodyEmptyList, BodyHtml, BodyTruncated, BodyNone}

JsonParse(body) ==
  CASE body = BodyRate -> [ok |-> TRUE, data |-> [kind |-> "object", rate |-> 35]]
    [] body = BodyEmptyList -> [ok |-> TRUE, data |-> [kind |-> "array", rate |-> 0]]
    [] body = BodyHtml ->
         [ok |-> FALSE, error |-> SyntaxError("Unexpected token < in JSON at position 0")]
    [] body = BodyTruncated ->
         [ok |-> FALSE, error |-> SyntaxError("Unexpected end of JSON input")]
    [] OTHER ->
         [ok |-> FALSE, error |-> SyntaxError("Unexpected end of JSON input")]

\* JSON.stringify(data, null, 2)
formatResponse(data) ==
  IF data.kind = "object"
    THEN "{\n  \"rate\": " \o ToString(data.rate) \o "\n}"
    ELSE "[]"

\* the success return of a tool handler
HandlerReturn(data) ==
  [content |-> << [type |-> "text", text |-> formatResponse(data)] >>]

IsErrorEnvelope(e) == "isError" \in DOMAIN e /\ e.isError = TRUE

(***************************************************************************)
(* State                                                                   *)
(***************************************************************************)
VARIABLES
  env,        \* process.env.BOT_API_KEY
  pc,         \* where each invocation stands
  tool,       \* the tool each invocation names
  args,       \* the raw arguments of each invocation
  calls,      \* the makeApiRequest calls of each invocation
  apiKey,     \* the local apiKey of each invocation's gateway call
  requests,   \* the fetch() calls of each invocation
  timer,      \* the setTimeout of each gateway call
  aborted,    \* controller.signal.aborted of each gateway call
  elapsed,    \* ms since the gateway call started, while it is in progress
  status,     \* response.status once the response has arrived, else 0
  bodyRead,   \* whether response.json() has been called
  result,     \* how the gateway call ended
  envelopes   \* the envelopes each invocation has returned

vars == << env, pc, tool, args, calls, apiKey, requests, timer, aborted,
           elapsed, status, bodyRead, result, envelopes >>

NoArgs == [start_period |-> Undefined, end_period |-> Undefined,
           currency |-> Undefined]
NoResult == [path |-> "none", error |-> Error("")]

Init ==
  /\ env \in {Undefined}
  /\ pc = [i \in Invs |-> "idle"]
  /\ tool = [i \in Invs |-> "none"]
  /\ args = [i \in Invs |-> NoArgs]
  /\ calls = [i \in Invs |-> <<>>]
  /\ apiKey = [i \in Invs |-> Undefined]
  /\ requests = [i \in Invs |-> <<>>]
  /\ timer = [i \in Invs |-> "none"]
  /\ aborted = [i \in Invs |-> FALSE]
  /\ elapsed = [i \in Invs |-> 0]
  /\ status = [i \in Invs |-> 0]
  /\ bodyRead = [i \in Invs |-> FALSE]
  /\ result = [i \in Invs |-> NoResult]
  /\ envelopes = [i \in Invs |-> <<>>]

InProgress(i) == pc[i] \in {"fetch", "body"}

\* process.env.BOT_API_KEY, read when makeApiRequest starts
ProcessEnvKeyAtStartup == Undefined
ProcessEnvKey == env

\* the request makeApiRequest hands to fetch()
BuildRequest(baseUrl, endpoint, params, key) ==
  [method |-> "GET",
   href |-> baseUrl \o endpoint,
   searchParams |-> AppendParams(params),
   Authorization |-> key.val,
   Accept |-> "application/json"]

\* the gateway call ends by throwing err into the handler's catch
Throw(i, path, err) ==
  /\ result' = [result EXCEPT ![i] = [path |-> path, error |-> err]]
  /\ envelopes' = [envelopes EXCEPT ![i] = Append(@, HandlerCatch(err))]
  /\ pc' = [pc EXCEPT ![i] = "done"]
  /\ elapsed' = [elapsed EXCEPT ![i] = 0]

(***************************************************************************)
(* A tool invocation arrives: the schema is applied and, when it accepts,  *)
(* the handler runs up to its first suspension, the await of fetch().      *)
(***************************************************************************)
Dispatch(i, t, a) ==
  /\ pc[i] = "idle"
  /\ tool' = [tool EXCEPT ![i] = t]
  /\ args' = [args EXCEPT ![i] = a]
  /\ IF ~ SchemaAccepts(t, a)
       THEN /\ pc' = [pc EXCEPT ![i] = "rejected"]
            /\ UNCHANGED << calls, apiKey, requests, timer, elapsed,
                            result, envelopes >>
       ELSE LET params == HandlerParams(t, a)
                key == ProcessEnvKey IN
            /\ calls' = [calls EXCEPT ![i] = Append(@,
                 [baseUrl |-> BaseUrlOf(t), endpoint |-> EndpointOf(t),
                  params |-> params])]
            /\ apiKey' = [apiKey EXCEPT ![i] = key]
            /\ IF ~ Truthy(key)
                 THEN /\ Throw(i, "credential", Error(MissingKeyMessage))
                      /\ UNCHANGED << requests, timer >>
                 ELSE /\ requests' = [requests EXCEPT ![i] = Append(@,
                           BuildRequest(BaseUrlOf(t), EndpointOf(t), params, key))]
                      /\ timer' = [timer EXCEPT ![i] = "pending"]
                      /\ pc' = [pc EXCEPT ![i] = "fetch"]
                      /\ UNCHANGED << elapsed, result, envelopes >>
  /\ UNCHANGED << env, aborted, status, bodyRead >>

(***************************************************************************)
(* fetch() resolves with the response headers.  A non-2xx status throws;   *)
(* otherwise response.json() is called and its promise is returned without *)
(* being awaited, so the finally clause clears the timer at once.          *)
(***************************************************************************)
FetchResolve(i, st, errorBody) ==
  /\ pc[i] = "fetch"
  /\ status' = [status EXCEPT ![i] = st]
  /\ timer' = [timer EXCEPT ![i] = "cleared"]
  /\ IF ~ ResponseOk(st)
       THEN /\ Throw(i, "status", GatewayCatch(Error(StatusMessage(st))))
            /\ UNCHANGED bodyRead
       ELSE /\ bodyRead' = [bodyRead EXCEPT ![i] = TRUE]
            /\ pc' = [pc EXCEPT ![i] = "body"]
            /\ UNCHANGED << elapsed, result, envelopes >>
  /\ UNCHANGED << env, tool, args, calls, apiKey, requests, aborted >>

\* fetch() rejects with a transport fault (DNS, connection reset, TLS)
FetchFaultNoClear(i, msg) ==
  /\ pc[i] = "fetch"
  /\ Throw(i, "transport", GatewayCatch(TypeError(msg)))
  /\ UNCHANGED << env, tool, args, calls, apiKey, requests, timer, aborted,
                  status, bodyRead >>
FetchFault(i, msg) ==
  /\ pc[i] = "fetch"
  /\ timer' = [timer EXCEPT ![i] = "cleared"]
  /\ Throw(i, "transport", GatewayCatch(TypeError(msg)))
  /\ UNCHANGED << env, tool, args, calls, apiKey, requests, aborted,
                  status, bodyRead >>

(***************************************************************************)
(* The deadline timer fires: controller.abort().  A pending fetch() rejects*)
(* with an AbortError, which the gateway's catch turns into the timeout    *)
(* error.  A pending body read rejects with the AbortError itself, because *)
(* the gateway has already returned its promise.                           *)
(***************************************************************************)
TimerFireShared(i) ==
  /\ timer[i] = "pending"
  /\ elapsed[i] >= REQUEST_TIMEOUT_MS
  /\ timer' = [timer EXCEPT ![i] = "fired"]
  /\ aborted' = [j \in Invs |-> aborted[j] \/ j = i \/ pc[j] = "fetch"]
  /\ result' = [j \in Invs |->
       IF pc[j] = "fetch"
         THEN [path |-> "abort", error |-> GatewayCatch(AbortError)]
         ELSE result[j]]
  /\ envelopes' = [j \in Invs |->
       IF pc[j] = "fetch"
         THEN Append(envelopes[j], HandlerCatch(GatewayCatch(AbortError)))
         ELSE envelopes[j]]
  /\ pc' = [j \in Invs |-> IF pc[j] = "fetch" THEN "done" ELSE pc[j]]
  /\ elapsed' = [j \in Invs |-> IF pc[j] = "fetch" THEN 0 ELSE elapsed[j]]
  /\ UNCHANGED << env, tool, args, calls, apiKey, requests, status, bodyRead >>
TimerFire(i) ==
  /\ timer[i] = "pending"
  /\ elapsed[i] >= REQUEST_TIMEOUT_MS
  /\ timer' = [timer EXCEPT ![i] = "fired"]
  /\ aborted' = [aborted EXCEPT ![i] = TRUE]
  /\ CASE pc[i] = "fetch" -> Throw(i, "abort", GatewayCatch(AbortError))
       [] pc[i] = "body" -> Throw(i, "abort", AbortError)
       [] OTHER -> UNCHANGED << pc, elapsed, result, envelopes >>
  /\ UNCHANGED << env, tool, args, calls, apiKey, requests, status, bodyRead >>

\* the body has arrived in full and response.json() parses it
BodyComplete(i, body) ==
  /\ pc[i] = "body"
  /\ LET parsed == JsonParse(body) IN
       IF parsed.ok
         THEN /\ result' = [result EXCEPT ![i] = [path |-> "ok", error |-> Error("")]]
              /\ envelopes' = [envelopes EXCEPT ![i] =
                                 Append(@, HandlerReturn(parsed.data))]
              /\ pc' = [pc EXCEPT ![i] = "done"]
              /\ elapsed' = [elapsed EXCEPT ![i] = 0]
         ELSE Throw(i, "parse", parsed.error)
  /\ UNCHANGED << env, tool, args, calls, apiKey, requests, timer, aborted,
                  status, bodyRead >>

\* the body stream fails before it is complete
BodyFault(i, msg) ==
  /\ pc[i] = "body"
  /\ Throw(i, "transport", TypeError(msg))
  /\ UNCHANGED << env, tool, args, calls, apiKey, requests, timer, aborted,
                  status, bodyRead >>

(***************************************************************************)
(* Time passes for the calls in progress.  Time never steps over the       *)
(* expiry of a pending timer, and a due timer fires before time moves on.  *)
(* Beyond the deadline the exact value is immaterial and is capped.        *)
(***************************************************************************)
ElapsedCap == REQUEST_TIMEOUT_MS + TickMs

Min(a, b) == IF a <= b THEN a ELSE b

SetMin(S) == CHOOSE x \in S : \A y \in S : x <= y

TickStep ==
  SetMin({TickMs} \cup
         { REQUEST_TIMEOUT_MS - elapsed[i] : i \in { j \in Invs : timer[j] = "pending" } })

Tick ==
  /\ \E i \in Invs : InProgress(i) /\ elapsed[i] < ElapsedCap
  /\ \A i \in Invs : timer[i] = "pending" => elapsed[i] < REQUEST_TIMEOUT_MS
  /\ elapsed' = [i \in Invs |->
       IF InProgress(i) THEN Min(elapsed[i] + TickStep, ElapsedCap)
                        ELSE elapsed[i]]
  /\ UNCHANGED << env, pc, tool, args, calls, apiKey, requests, timer,
                  aborted, status, bodyRead, result, envelopes >>

\* the environment variable is set, changed or removed
SetEnv(v) ==
  /\ v # env
  /\ env' = v
  /\ UNCHANGED << pc, tool, args, calls, apiKey, requests, timer, aborted,
                  elapsed, status, bodyRead, result, envelopes >>

(***************************************************************************)
(* Inputs                                                                  *)
(***************************************************************************)
KeyA == <<"k","e","y","A">>
KeyB == <<"k","e","y","B">>
EnvValues == { Undefined, Some(<<>>), Some(KeyA), Some(KeyB) }

Daily == <<"2","0","2","4","-","0","1","-","3","1">>
DailyNoSuchDay == <<"2","0","2","4","-","1","3","-","9","9">>
Monthly == <<"2","0","2","4","-","1","2">>
Quarterly == <<"2","0","2","4","-","Q","4">>
Annual == <<"2","0","2","4">>
USD == <<"U","S","D">>
PKR == <<"P","K","R">>

WellFormed == { Daily, DailyNoSuchDay, Monthly, Quarterly, Annual }

MutChars == { "5", "-", "Q", "x" }

\* the strings one edit away from s
Variants(s) ==
  { [s EXCEPT ![p] = ch] : p \in 1 .. Len(s), ch \in MutChars }
    \cup { Append(s, ch) : ch \in MutChars \cup {"\n", " "} }
    \cup { <<ch>> \o s : ch \in MutChars }
    \cup { SubSeq(s, 1, Len(s) - 1), SubSeq(s, 2, Len(s)) }

PeriodSamples ==
  WellFormed \cup UNION { Variants(s) : s \in {Daily, Monthly, Quarterly, Annual} }
    \cup { <<>>, <<"2","0","2","4","-","Q","0">>, <<"2","0","2","4","-","q","1">> }

CurrencySamples ==
  { USD, PKR, <<"u","s","d">>, <<"U","S">>, <<"X","X","X">>, <<>> }

\* raw arguments: one period is drawn from the samples, the other is well formed
WideArgs ==
  { [start_period |-> s, end_period |-> e, currency |-> c] :
      s \in OptOf(PeriodSamples), e \in OptOf(WellFormed),
      c \in OptOf(CurrencySamples) }
  \cup
  { [start_period |-> s, end_period |-> e, currency |-> c] :
      s \in OptOf(WellFormed), e \in OptOf(PeriodSamples),
      c \in OptOf(CurrencySamples) }

Statuses == { 200, 204, 299, 300, 404, 500 }
FaultMessages == { "fetch failed", "terminated" }

\* the invocations of the concurrent specification
FewCalls ==
  { << "get_daily_interbank_rate",
       [start_period |-> Some(Daily), end_period |-> Some(Daily),
        currency |-> Undefined] >>,
    << "get_monthly_exchange_rate",
       [start_period |-> Some(Monthly), end_period |-> Some(Monthly),
        currency |-> Some(USD)] >> }
FewStatuses == { 200, 404 }
FewBodies == { BodyRate, BodyHtml }
FewEnvValues == { Undefined, Some(KeyA), Some(KeyB) }

(***************************************************************************)
(* Specifications                                                          *)
(***************************************************************************)
\* several invocations in flight together
Next ==
  \/ \E i \in Invs, c \in FewCalls : Dispatch(i, c[1], c[2])
  \/ \E i \in Invs, st \in FewStatuses, b \in FewBodies : FetchResolve(i, st, b)
  \/ \E i \in Invs : FetchFault(i, "fetch failed")
  \/ \E i \in Invs : TimerFire(i)
  \/ \E i \in Invs, b \in FewBodies : BodyComplete(i, b)
  \/ \E i \in Invs : BodyFault(i, "terminated")
  \/ Tick
  \/ \E v \in FewEnvValues : SetEnv(v)

Spec == Init /\ [][Next]_vars

\* one invocation, over every tool and a wide range of arguments
NextOne ==
  \/ pc[1] = "idle" /\ \E t \in Tools, a \in WideArgs : Dispatch(1, t, a)
  \/ \E st \in Statuses, b \in Bodies : FetchResolve(1, st, b)
  \/ \E m \in FaultMessages : FetchFault(1, m)
  \/ TimerFire(1)
  \/ \E b \in Bodies : BodyComplete(1, b)
  \/ \E m \in FaultMessages : BodyFault(1, m)
  \/ Tick
  \/ \E v \in EnvValues : SetEnv(v)

SpecOne == Init /\ [][NextOne]_vars

(***************************************************************************)
(* Properties                                                              *)
(***************************************************************************)
ErrorEnvelope(text) ==
  [content |-> << [type |-> "text", text |-> text] >>, isError |-> TRUE]

Validated(i) == pc[i] \in {"fetch", "body", "done"}

\* C1: whatever the tool and its schema-valid arguments, an invocation made
\* while BOT_API_KEY is unset or empty returns exactly the error envelope
\* with the missing-key text, issues no HTTP request and starts no timer.
C1_MissingCredential ==
  \A i \in Invs :
    (calls[i] # <<>> /\ (~ apiKey[i].set \/ apiKey[i].val = <<>>)) =>
      /\ pc[i] = "done"
      /\ envelopes[i] = << ErrorEnvelope(
           "Error: BOT_API_KEY environment variable is not set. Please set it with your Bank of Thailand API key.") >>
      /\ requests[i] = <<>>
      /\ timer[i] = "none"

C1_Witness ==
  /\ tool[1] = "get_quarterly_exchange_rate"
  /\ calls[1] # <<>>
  /\ apiKey[1] = Some(<<>>)
  /\ pc[1] = "done"

\* C2: a call that has not produced its outcome (the parsed JSON value or a
\* failure) by 30,000 ms after its start is aborted at the deadline: no
\* invocation is still in progress later than the deadline, and one that is
\* in progress at the deadline has its abort timer pending.
C2_HardDeadline ==
  \A i \in Invs :
    InProgress(i) =>
      /\ elapsed[i] <= REQUEST_TIMEOUT_MS
      /\ (elapsed[i] = REQUEST_TIMEOUT_MS => timer[i] = "pending")

\* C3: every failure below a handler ends the invocation with exactly one
\* envelope, flagged isError, whose text is "Error: " and the failure's
\* message; an envelope without the flag is returned only for a 2xx status
\* whose body parsed as JSON.
C3_FailuresBecomeEnvelopes ==
  \A i \in Invs :
    /\ pc[i] # "done" => envelopes[i] = <<>>
    /\ pc[i] = "done" =>
         /\ Len(envelopes[i]) = 1
         /\ result[i].path \in
              {"credential", "status", "abort", "transport", "parse", "ok"}
         /\ result[i].path # "ok" =>
              envelopes[i][1] = ErrorEnvelope("Error: " \o result[i].error.message)
         /\ result[i].path = "credential" =>
              result[i].error.message = MissingKeyMessage
         /\ result[i].path = "status" =>
              result[i].error.message =
                "API request failed with status " \o ToString(status[i])
         /\ result[i].path = "abort" =>
              result[i].error.message = "API request timed out"
         /\ ~ IsErrorEnvelope(envelopes[i][1]) =>
              /\ status[i] >= 200 /\ status[i] <= 299
              /\ result[i].path = "ok"
              /\ \E b \in Bodies :
                   /\ JsonParse(b).ok
                   /\ envelopes[i][1] = HandlerReturn(JsonParse(b).data)

C3_Witness ==
  /\ pc[1] = "done"
  /\ result[1].path = "parse"
  /\ status[1] = 204
  /\ IsErrorEnvelope(envelopes[1][1])

\* the period grammars as the claim states them, position by position
IsDigitAt(s, k) == s[k] \in {"0","1","2","3","4","5","6","7","8","9"}

GrammarDaily(s) ==
  /\ Len(s) = 10
  /\ \A k \in {1, 2, 3, 4, 6, 7, 9, 10} : IsDigitAt(s, k)
  /\ s[5] = "-" /\ s[8] = "-"

GrammarMonthly(s) ==
  /\ Len(s) = 7
  /\ \A k \in {1, 2, 3, 4, 6, 7} : IsDigitAt(s, k)
  /\ s[5] = "-"

GrammarQuarterly(s) ==
  /\ Len(s) = 7
  /\ \A k \in {1, 2, 3, 4} : IsDigitAt(s, k)
  /\ s[5] = "-" /\ s[6] = "Q" /\ s[7] \in {"1", "2", "3", "4"}

GrammarAnnual(s) ==
  /\ Len(s) = 4
  /\ \A k \in {1, 2, 3, 4} : IsDigitAt(s, k)

GrammarOf(t, s) ==
  CASE t \in {"get_daily_interbank_rate", "get_daily_exchange_rate"} ->
         GrammarDaily(s)
    [] t \in {"get_monthly_interbank_rate", "get_monthly_exchange_rate"} ->
         GrammarMonthly(s)
    [] t \in {"get_quarterly_interbank_rate", "get_quarterly_exchange_rate"} ->
         GrammarQuarterly(s)
    [] t \in {"get_annual_interbank_rate", "get_annual_exchange_rate"} ->
         GrammarAnnual(s)

ClaimedValid(t, a) ==
  /\ a.start_period.set /\ GrammarOf(t, a.start_period.val)
  /\ a.end_period.set /\ GrammarOf(t, a.end_period.val)
  /\ (t \in ExchangeTools /\ a.currency.set) =>
       a.currency.val \in SUPPORTED_CURRENCIES

\* C4: a tool's handler runs if and only if start_period and end_period
\* match the grammar of the tool's granularity and, for an exchange-rate
\* tool, currency is absent or one of the 20 codes; a rejected invocation
\* runs no handler code and makes no network call; well-formed values that
\* name no calendar date are accepted.
C4_HandlerRunsIffSchemaValid ==
  \A i \in Invs :
    pc[i] # "idle" =>
      /\ (calls[i] # <<>>) <=> ClaimedValid(tool[i], args[i])
      /\ (pc[i] = "rejected") <=> ~ ClaimedValid(tool[i], args[i])
      /\ pc[i] = "rejected" =>
           /\ calls[i] = <<>> /\ requests[i] = <<>> /\ envelopes[i] = <<>>
           /\ timer[i] = "none" /\ ~ apiKey[i].set

C4_Witness ==
  /\ tool[1] = "get_daily_exchange_rate"
  /\ args[1].start_period = Some(DailyNoSuchDay)
  /\ args[1].currency = Some(PKR)
  /\ calls[1] # <<>>
  /\ requests[1] # <<>>

\* the endpoint the tool table of the specification assigns to each tool
ClaimedBase(t) ==
  IF t \in InterbankTools
    THEN "https://gateway.api.bot.or.th/Stat-ReferenceRate/v2"
    ELSE "https://gateway.api.bot.or.th/Stat-ExchangeRate/v2"

ClaimedPath(t) ==
  CASE t = "get_daily_interbank_rate" -> "/DAILY_REF_RATE/"
    [] t = "get_monthly_interbank_rate" -> "/MONTHLY_REF_RATE/"
    [] t = "get_quarterly_interbank_rate" -> "/QUARTERLY_REF_RATE/"
    [] t = "get_annual_interbank_rate" -> "/ANNUAL_REF_RATE/"
    [] t = "get_daily_exchange_rate" -> "/DAILY_AVG_EXG_RATE/"
    [] t = "get_monthly_exchange_rate" -> "/MONTHLY_AVG_EXG_RATE/"
    [] t = "get_quarterly_exchange_rate" -> "/QUARTERLY_AVG_EXG_RATE/"
    [] t = "get_annual_exchange_rate" -> "/ANNUAL_AVG_EXG_RATE/"

QueryValue(q, key) ==
  LET hits == { k \in 1 .. Len(q) : q[k].key = key } IN
    IF hits = {} THEN Undefined ELSE Some(q[CHOOSE k \in hits : TRUE].value)

QueryCount(q, key) == Cardinality({ k \in 1 .. Len(q) : q[k].key = key })

\* C5: a validated invocation makes exactly one gateway call and at most one
\* HTTP GET, to the base URL and endpoint of its tool, with start_period and
\* end_period as the caller gave them; an interbank request carries those
\* two query parameters and no others; no outcome leads to a second call.
C5_OneCallToTheToolsEndpoint ==
  \A i \in Invs :
    Validated(i) =>
      /\ Len(calls[i]) = 1
      /\ calls[i][1].baseUrl = ClaimedBase(tool[i])
      /\ calls[i][1].endpoint = ClaimedPath(tool[i])
      /\ Len(requests[i]) <= 1
      /\ (apiKey[i].set /\ apiKey[i].val # <<>>) => Len(requests[i]) = 1
      /\ \A k \in 1 .. Len(requests[i]) :
           LET r == requests[i][k] IN
           /\ r.method = "GET"
           /\ r.href = ClaimedBase(tool[i]) \o ClaimedPath(tool[i])
           /\ QueryValue(r.searchParams, "start_period") = args[i].start_period
           /\ QueryValue(r.searchParams, "end_period") = args[i].end_period
           /\ QueryCount(r.searchParams, "start_period") = 1
           /\ QueryCount(r.searchParams, "end_period") = 1
           /\ tool[i] \in InterbankTools => Len(r.searchParams) = 2

C5_Witness ==
  /\ tool[1] = "get_quarterly_exchange_rate"
  /\ pc[1] = "done"
  /\ result[1].path = "transport"
  /\ Len(calls[1]) = 1
  /\ Len(requests[1]) = 1

\* C6: an entry of the gateway's params is a query parameter of the request
\* if and only if its value is a non-empty string, and no query parameter is
\* sent empty; an exchange-rate request carries currency exactly when the
\* caller supplied it, with the caller's value.
C6_EmptyParamsOmitted ==
  \A i \in Invs :
    \A k \in 1 .. Len(requests[i]) :
      LET q == requests[i][k].searchParams
          params == calls[i][1].params IN
      /\ \A n \in 1 .. Len(params) :
           IF params[n].value # <<>>
             THEN /\ QueryCount(q, params[n].key) = 1
                  /\ QueryValue(q, params[n].key) = Some(params[n].value)
             ELSE QueryCount(q, params[n].key) = 0
      /\ \A n \in 1 .. Len(q) :
           /\ q[n].value # <<>>
           /\ \E m \in 1 .. Len(params) : params[m] = q[n]
      /\ tool[i] \in ExchangeTools =>
           QueryValue(q, "currency") = args[i].currency

C6_Witness ==
  /\ tool[1] = "get_daily_exchange_rate"
  /\ ~ args[1].currency.set
  /\ Len(requests[1]) = 1
  /\ QueryCount(requests[1][1].searchParams, "currency") = 0
  /\ Len(requests[1][1].searchParams) = 2

\* C7: for a non-2xx status s the envelope is the error envelope with text
\* "Error: API request failed with status s", a function of s alone, and
\* the response body is never read.
C7_StatusErrorCarriesOnlyStatus ==
  \A i \in Invs :
    (status[i] # 0 /\ ~ (status[i] >= 200 /\ status[i] <= 299)) =>
      /\ pc[i] = "done"
      /\ ~ bodyRead[i]
      /\ envelopes[i] = << ErrorEnvelope(
           "Error: API request failed with status " \o ToString(status[i])) >>

C7_Witness ==
  /\ status[1] = 300
  /\ pc[1] = "done"
  /\ envelopes[1] = << ErrorEnvelope("Error: API request failed with status 300") >>

\* C8: a deadline timer is pending only while its gateway call awaits the
\* response; once the call has left by any path its timer is cleared or has
\* fired, and a timer fires only into the call that times out.
C8_TimerNeverOutlivesCall ==
  \A i \in Invs :
    /\ timer[i] = "pending" => pc[i] = "fetch"
    /\ (pc[i] \in {"body", "done"} /\ requests[i] # <<>>) =>
         timer[i] \in {"cleared", "fired"}
    /\ timer[i] = "fired" => (pc[i] = "done" /\ result[i].path = "abort")
    /\ requests[i] = <<>> => timer[i] = "none"

C8_Witness ==
  \E i \in Invs :
    /\ pc[i] = "done"
    /\ result[i].path = "transport"
    /\ timer[i] = "cleared"

FalsyKey(v) == ~ v.set \/ v.val = <<>>

\* C9: the credential is read when each gateway call starts: an invocation
\* dispatched while BOT_API_KEY is set sends the request with that value as
\* Authorization, and one dispatched while it is unset or empty fails with
\* the missing-key error, whatever earlier invocations met.
C9_CredentialReadPerCall ==
  [][ \A i \in Invs :
        (pc[i] = "idle" /\ Validated(i)') =>
          IF FalsyKey(env)
            THEN /\ requests'[i] = <<>>
                 /\ envelopes'[i] = << ErrorEnvelope("Error: " \o MissingKeyMessage) >>
            ELSE /\ Len(requests'[i]) = 1
                 /\ requests'[i][1].Authorization = env.val
                 /\ pc'[i] = "fetch"
                 /\ envelopes'[i] = <<>> ]_vars

C9_Witness ==
  \E i, j \in Invs :
    /\ result[i].path = "credential"
    /\ result[j].path = "ok"
    /\ requests[j][1].Authorization = KeyB
    /\ env = Undefined

\* C10: a step of one invocation (its response, fault, body or timer) changes
\* nothing of any other invocation, and an invocation ends with the timeout
\* error exactly when its own timer has fired.
C10_NoCrossInvocationAbort ==
  [][ /\ \A i, j \in Invs :
           (i # j /\ (pc'[i] # pc[i] \/ timer'[i] # timer[i])) =>
             /\ pc'[j] = pc[j] /\ timer'[j] = timer[j]
             /\ aborted'[j] = aborted[j] /\ envelopes'[j] = envelopes[j]
             /\ result'[j] = result[j] /\ requests'[j] = requests[j]
      /\ \A i \in Invs :
           /\ (result'[i].path = "abort") <=> (timer'[i] = "fired")
           /\ aborted'[i] <=> (timer'[i] = "fired") ]_vars

C10_Witness ==
  \E i, j \in Invs :
    /\ i # j
    /\ result[i].path = "abort" /\ timer[i] = "fired"
    /\ pc[j] = "fetch" /\ timer[j] = "pending" /\ ~ aborted[j]
    /\ elapsed[j] > 0

====
